---- MODULE Spec2Model ----
(***************************************************************************)
(* Model of utils/modelLoader (src/unnamed/part_000): the cost-model       *)
(* loader with its module-level cache, the evaluator                       *)
(* predictManufacturingCost and the three-pass search                      *)
(* findOptimalProductionVolume.                                            *)
(*                                                                         *)
(* Numbers.  Volumes are whole units; the step arguments are multiples of  *)
(* 50, so that initialStepSize / 10 and refinedStep / 5 are whole too and  *)
(* every volume the loops visit is exact.  A cost is the numerator of a    *)
(* fraction over CostDen; a model output (the normalised cost) is the      *)
(* numerator of a fraction over CostDen * 100000.  Arithmetic is exact     *)
(* (the float32 rounding of the tensors is not modelled).                  *)
(***************************************************************************)
EXTENDS Integers, Sequences, FiniteSets, TLC

VARIABLES
    modelCache,       \* the module-level cache, part_000:5-8
    backend,          \* environment: does tf.loadLayersModel succeed ("ok") or fail ("down")
    tfModel,          \* environment: the function computed by the model file when it loads
    volDen,           \* every volume is held as a number of 1/volDen units (1: whole volumes)
    failure,          \* environment: [at, error] - the predict call of the loaded model that throws
    minVolume, maxVolume, initialStepSize,   \* arguments of findOptimalProductionVolume
    pc,               \* position of the search: idle, coarse, refine, final, done, failed
    volume,           \* the loop variable of the running for-loop
    bestVolume, lowestCost,
    refinedMin, refinedMax, finalMin, finalMax,
    calls,            \* history: the volumes passed to predictManufacturingCost, in call order
    evaluated,        \* history: [pass, volume, cost] of every call that returned, in call order
    passLowest,       \* history: lowestCost at the end of each completed pass
    thrown,           \* history: the error the evaluator threw, "none" if it did not
    settled,          \* the promise of the search: pending, fulfilled, or the error it rejected with
    result,           \* the object the search returned: empty until it returns
    cacheAtCall,      \* history: modelCache as it was when the search was called
    cancelRequested,  \* environment: the caller wants the running search to stop
    searches,         \* the locals of each of two concurrent invocations of the search
    running,          \* the running best pair of each invocation: its bestVolume and lowestCost
    features,         \* predictDemand: the features object it is called with
    prediction,       \* predictDemand: the set of what it returned, empty before the call
    loads,            \* concurrent callers of loadCostOptimizationModel and the loads they started
    isLoading,        \* Optimization: useState(false)
    error,            \* Optimization: useState(null)
    optimizationDone, \* Optimization: useState(false)
    predictedCost,    \* Optimization: useState(null)
    optimalVolume,    \* Optimization: useState(null)
    costChartData,    \* Optimization: useState(null)
    inFlight,         \* Optimization: the handler calls that are suspended at an await
    activeTab,        \* App: useState('dashboard')
    lastNavigation,   \* history: the detail of the last 'navigate-tab' event, and a bit that flips at each
    data,             \* EDA: useState(null): empty for null, else holds the file whose rows it is
    columns,          \* EDA: useState([])
    xAxisColumn,      \* EDA: useState('')
    yAxisColumn,      \* EDA: useState('')
    chartData,        \* EDA: useState(null): empty for null, else holds the columns charted
    parsing,          \* EDA: the files Papa.parse is working on
    supplyChainData,  \* the SupplyChainData singleton
    downloads         \* the CSV files loadData's Papa.parse is downloading

vars == <<modelCache, backend, tfModel, volDen, failure, minVolume, maxVolume, initialStepSize,
          pc, volume, bestVolume, lowestCost, refinedMin, refinedMax, finalMin, finalMax,
          calls, evaluated, passLowest, thrown, settled, result, cacheAtCall,
          cancelRequested, searches, running, features, prediction, loads, isLoading,
          error, optimizationDone, predictedCost, optimalVolume, costChartData, inFlight,
          activeTab, lastNavigation, chartData, parsing, data, columns, xAxisColumn,
          yAxisColumn, supplyChainData, downloads>>

\* The state of modelLoader and of one search
searchVars == <<modelCache, backend, tfModel, volDen, failure, minVolume, maxVolume,
                initialStepSize, pc, volume, bestVolume, lowestCost, refinedMin, refinedMax,
                finalMin, finalMax, calls, evaluated, passLowest, thrown, settled, result,
                cacheAtCall, cancelRequested>>

\* The state of the components and of the data singleton
demandVars == <<features, prediction>>
optimizationVars == <<isLoading, error, optimizationDone, predictedCost, optimalVolume,
                      costChartData, inFlight>>
appVars == <<activeTab, lastNavigation>>
edaVars == <<data, columns, xAxisColumn, yAxisColumn, chartData, parsing>>
dataVars == <<supplyChainData, downloads>>
componentVars == <<demandVars, loads, optimizationVars, appVars, edaVars, dataVars>>

\* The variables of the two concurrent invocations
pairVars == <<searches, running>>

-----------------------------------------------------------------------------
(* Bounds of the model *)

VolStride == 35        \* generic range ends are multiples of VolStride
MaxVolIdx == 4         \* ... up to MaxVolIdx * VolStride
TableSize == 3         \* period of the table-shaped loaded models
MaxLevel == 1          \* output levels 0..MaxLevel of a loaded model
LevelGap == 300        \* distance of two output levels, in 1/CostDen after denormalising / 19
MaxFailAt == 3         \* the failing predict call is one of the first MaxFailAt
MaxCalls == 60         \* cap on evaluator calls of one search (never reached with a step > 0)
MaxRunaway == 8        \* evaluator calls followed in a loop whose step is <= 0
VolParts == 2          \* fractional volumes are multiples of 1 / VolParts
MaxPart == 5           \* fractional range ends are 0 .. MaxPart / VolParts
MaxInFlight == 2       \* cap on the handler calls of Optimization in flight at once
MaxFields == 2         \* columns of an uploaded CSV file
MaxParsing == 1        \* uploaded files being parsed at once
MaxRows == 2           \* rows of a CSV file loaded by SupplyChainData
MaxDownloads == 1      \* CSV files being downloaded by loadData at once

(* Program constants *)

Infinity == 2147483647     \* stands for the IEEE infinity of `let lowestCost = Infinity`
NormMin == 100             \* normalizeProductionVolume's default min
NormMax == 10000           \* normalizeProductionVolume's default max
DefaultMinVolume == 100
DefaultMaxVolume == 10000
DefaultStep == 500

Max(a, b) == IF a >= b THEN a ELSE b
Min(a, b) == IF a <= b THEN a ELSE b
Abs(a) == IF a < 0 THEN 0 - a ELSE a

-----------------------------------------------------------------------------
(* The evaluator: loadCostOptimizationModel, the fallback model,            *)
(* normalizeProductionVolume, denormalizeCost, predictManufacturingCost     *)

NormDen == NormMax - NormMin

\* The denominator of a cost: x = value * 10000 = 100 n / 99 for value = n / NormDen,
\* and (x - 5000)^2 leaves 99^2.
CostDen == (NormDen \div 100) * (NormDen \div 100)

\* (value - min) / (max - min), as a numerator over NormDen for whole volumes
\* (over NormDen * volDen in general)
NormalizeProductionVolume(value) == value - NormMin * volDen

\* The fallback model's predict, from the normalised input n / NormDen:
\*   x = value * 10000 = 100 n / 99, so x - 5000 = 100 (n - 4950) / 99
\*   cost = 100000 * (x - 5000)^2 / 25000000 + 10000
\*        = (40 (n - 4950)^2 + 10000 * CostDen) / CostDen
\* and the tensor it returns holds cost / 100000: the same numerator over
\* CostDen * 100000.
FallbackPredict(n) ==
    LET d == n - (5000 * NormDen) \div 10000
    IN  ((100000 * 10000) \div 25000000) * d * d + 10000 * CostDen

\* The function a model file computes once loaded: unknown to the program, one
\* of a family here, each a function of the whole part w of the volume above
\* NormMin.  Outputs are multiples of 20 over CostDen * 100000.
LoadedPredict(n) ==
    LET w == n \div volDen
        level == IF tfModel.kind = "table"
                 THEN tfModel.tab[w % TableSize]
                 ELSE IF tfModel.kind = "bowl"
                 THEN Max(0, Abs(w - tfModel.centre) - tfModel.flat)
                 ELSE IF Abs(w - tfModel.centre) <= tfModel.flat
                      THEN 0
                      ELSE 1 + tfModel.tab[w % TableSize]
    IN  20 * LevelGap * level

\* normalizedCost * (max - min) + min with min = 5000, max = 100000: from a
\* numerator over CostDen * 100000 to a numerator over CostDen (the factor
\* 95000 / 100000 is 19 / 20; every model output is a multiple of 20).
DenormalizeCost(normalizedCost) ==
    (normalizedCost \div 20) * ((100000 - 5000) \div 5000) + 5000 * CostDen

\* A variant of the loader that lets the load error escape instead of
\* installing the fallback model.
LoadRethrows(cache) ==
    IF cache.costOptimization # "null"
    THEN [model |-> cache.costOptimization, cache |-> cache, threw |-> "none"]
    ELSE IF backend = "ok"
         THEN [model |-> "loaded",
               cache |-> [cache EXCEPT !.costOptimization = "loaded"],
               threw |-> "none"]
         ELSE [model |-> "null", cache |-> cache, threw |-> "LoadError"]

\* A variant of the loader that hands out the fallback model without caching it.
LoadSkipsCache(cache) ==
    IF cache.costOptimization # "null"
    THEN [model |-> cache.costOptimization, cache |-> cache, threw |-> "none"]
    ELSE IF backend = "ok"
         THEN [model |-> "loaded",
               cache |-> [cache EXCEPT !.costOptimization = "loaded"],
               threw |-> "none"]
         ELSE [model |-> "fallback", cache |-> cache, threw |-> "none"]

\* loadCostOptimizationModel: the cached model if there is one, else the model
\* file, else (the load failed) the fallback model; either is cached.
LoadCostOptimizationModel(cache) ==
    IF cache.costOptimization # "null"
    THEN [model |-> cache.costOptimization, cache |-> cache, threw |-> "none"]
    ELSE IF backend = "ok"
         THEN [model |-> "loaded",
               cache |-> [cache EXCEPT !.costOptimization = "loaded"],
               threw |-> "none"]
         ELSE [model |-> "fallback",
               cache |-> [cache EXCEPT !.costOptimization = "fallback"],
               threw |-> "none"]

\* model.predict(inputTensor) followed by await prediction.data(): the fallback
\* object is plain arithmetic; the loaded model may throw on its nth call.
ModelPredict(model, n, nth) ==
    IF model = "fallback"
    THEN [threw |-> "none", out |-> FallbackPredict(n)]
    ELSE IF failure.at = nth
         THEN [threw |-> failure.error, out |-> 0]
         ELSE [threw |-> "none", out |-> LoadedPredict(n)]

\* A variant of the evaluator that catches a failed prediction and answers a
\* zero cost.
PredictSwallowsError(productionVolume, cache, nth) ==
    LET l == LoadCostOptimizationModel(cache)
        p == ModelPredict(l.model, NormalizeProductionVolume(productionVolume), nth)
    IN  [threw |-> "none",
         cost  |-> IF p.threw = "none" THEN DenormalizeCost(p.out) ELSE 0,
         cache |-> l.cache]

\* predictManufacturingCost, as the nth evaluator call of the search
PredictManufacturingCost(productionVolume, cache, nth) ==
    LET l == LoadCostOptimizationModel(cache)
        p == ModelPredict(l.model, NormalizeProductionVolume(productionVolume), nth)
    IN  IF l.threw # "none"
        THEN [threw |-> l.threw, cost |-> 0, cache |-> l.cache]
        ELSE IF p.threw # "none"
             THEN [threw |-> p.threw, cost |-> 0, cache |-> l.cache]
             ELSE [threw |-> "none", cost |-> DenormalizeCost(p.out), cache |-> l.cache]

\* Math.round of num / den: the nearest integer, halves upwards
MathRound(num, den) ==
    IF num = Infinity THEN Infinity
    ELSE LET q == num \div den
             r == num % den
         IN  IF 2 * r >= den THEN q + 1 ELSE q

-----------------------------------------------------------------------------
(* findOptimalProductionVolume *)

\* A variant of the comparison that also takes an equal cost.
ImprovesOrTies(cost, lowest) == cost <= lowest

\* A variant of the comparison that takes every different cost.
Differs(cost, lowest) == cost # lowest

\* if (cost < lowestCost)
IsImprovement(cost, lowest) == cost < lowest

\* Variants of the two step sizes with another divisor.
RefinedStepFifth == initialStepSize \div 5
FinalStepTenth == (initialStepSize \div 10) \div 10

\* const refinedStep = initialStepSize / 10
RefinedStep == initialStepSize \div 10

\* const finalStep = refinedStep / 5
FinalStep == RefinedStep \div 5

\* Variants of the window bounds without the clamp to the caller's range.
UnclampedMin(lo, best, radius) == best - radius
UnclampedMax(hi, best, radius) == best + radius

\* A variant of the window that starts at the lower end of the whole range.
WholeRangeMin(lo, best, radius) == lo

\* Math.max(minVolume, bestVolume - radius): refinedMin and finalMin
WindowMin(lo, best, radius) == Max(lo, best - radius)

\* Math.min(maxVolume, bestVolume + radius): refinedMax and finalMax
WindowMax(hi, best, radius) == Min(hi, best + radius)

\* A variant of the loop condition that stops short of the upper end.
ContinueBelow(v, hi) == v < hi

\* The loop condition of the three for-loops: volume <= maxVolume, <= refinedMax,
\* <= finalMax
Continue(v, hi) == v <= hi

\* A variant of the loop increment that leaves the loop variable where it is.
Stay(v, step) == v

\* The loop increment of the three for-loops: volume += step
Advance(v, step) == v + step

\* The evaluator calls a search is followed for.
CallBudget == IF initialStepSize > 0 THEN MaxCalls ELSE MaxRunaway

\* The body of each of the three for-loops: await the evaluator at volume, keep
\* the pair if it is an improvement, advance volume by step.  A rejected await
\* leaves the function: its promise rejects with the same error.
LoopBody(step) ==
    LET r == PredictManufacturingCost(volume, modelCache, Len(calls) + 1)
    IN  /\ Len(calls) < CallBudget
        /\ calls' = Append(calls, volume)
        /\ modelCache' = r.cache
        /\ IF r.threw # "none"
           THEN /\ thrown' = r.threw
                /\ settled' = r.threw
                /\ pc' = "failed"
                /\ UNCHANGED <<volume, bestVolume, lowestCost, evaluated>>
           ELSE /\ evaluated' = Append(evaluated, [pass |-> pc, volume |-> volume, cost |-> r.cost])
                /\ IF IsImprovement(r.cost, lowestCost)
                   THEN lowestCost' = r.cost /\ bestVolume' = volume
                   ELSE UNCHANGED <<lowestCost, bestVolume>>
                /\ volume' = Advance(volume, step)
                /\ UNCHANGED <<pc, thrown, settled>>
        /\ UNCHANGED <<backend, tfModel, volDen, failure, minVolume, maxVolume, initialStepSize,
                       refinedMin, refinedMax, finalMin, finalMax, passLowest, result,
                       cacheAtCall, cancelRequested>>
        /\ UNCHANGED pairVars
        /\ UNCHANGED componentVars

\* The arguments the search is called with: the defaults of the function, the
\* Dashboard's call, the Optimization form's initial values, and small ranges.
VolumeChoices == {i * VolStride : i \in 0..MaxVolIdx}
StepChoices == {0 - 50, 0, 50, 100}
Arguments ==
    {<<DefaultMinVolume, DefaultMaxVolume, DefaultStep>>, <<100, 1000, 100>>, <<100, 1000, 50>>,
     <<1000, 100, 50>>, <<500, 500, 100>>}
    \cup (VolumeChoices \X VolumeChoices \X StepChoices)

\* Dashboard's mount effect awaits loadCostOptimizationModel() before it searches.
DashboardLoad ==
    /\ pc = "idle"
    /\ modelCache.costOptimization = "null"
    /\ modelCache' = LoadCostOptimizationModel(modelCache).cache
    /\ UNCHANGED <<backend, tfModel, volDen, failure, minVolume, maxVolume, initialStepSize,
                   pc, volume, bestVolume, lowestCost, refinedMin, refinedMax, finalMin,
                   finalMax, calls, evaluated, passLowest, thrown, settled, result,
                   cacheAtCall, cancelRequested>>
    /\ UNCHANGED pairVars
    /\ UNCHANGED componentVars

\* The call: bestVolume = minVolume, lowestCost = Infinity, volume = minVolume
Call(a, b, s) ==
    /\ pc = "idle"
    /\ minVolume' = a /\ maxVolume' = b /\ initialStepSize' = s
    /\ bestVolume' = a
    /\ lowestCost' = Infinity
    /\ volume' = a
    /\ pc' = "coarse"
    /\ cacheAtCall' = modelCache
    /\ UNCHANGED <<modelCache, backend, tfModel, volDen, failure, refinedMin, refinedMax, finalMin,
                   finalMax, calls, evaluated, passLowest, thrown, settled, result,
                   cancelRequested>>
    /\ UNCHANGED pairVars
    /\ UNCHANGED componentVars

\* First pass, one iteration
CoarseStep ==
    /\ pc = "coarse"
    /\ Continue(volume, maxVolume)
    /\ LoopBody(initialStepSize)

\* First pass exhausted: the window of the second pass
CoarseExit ==
    /\ pc = "coarse"
    /\ ~Continue(volume, maxVolume)
    /\ refinedMin' = WindowMin(minVolume, bestVolume, initialStepSize)
    /\ refinedMax' = WindowMax(maxVolume, bestVolume, initialStepSize)
    /\ volume' = WindowMin(minVolume, bestVolume, initialStepSize)
    /\ passLowest' = Append(passLowest, lowestCost)
    /\ pc' = "refine"
    /\ UNCHANGED <<modelCache, backend, tfModel, volDen, failure, minVolume, maxVolume,
                   initialStepSize, bestVolume, lowestCost, finalMin, finalMax, calls,
                   evaluated, thrown, settled, result,
                   cacheAtCall, cancelRequested>>
    /\ UNCHANGED pairVars
    /\ UNCHANGED componentVars

\* Second pass, one iteration
RefineStep ==
    /\ pc = "refine"
    /\ Continue(volume, refinedMax)
    /\ LoopBody(RefinedStep)

\* Second pass exhausted: the window of the final pass
RefineExit ==
    /\ pc = "refine"
    /\ ~Continue(volume, refinedMax)
    /\ finalMin' = WindowMin(minVolume, bestVolume, RefinedStep)
    /\ finalMax' = WindowMax(maxVolume, bestVolume, RefinedStep)
    /\ volume' = WindowMin(minVolume, bestVolume, RefinedStep)
    /\ passLowest' = Append(passLowest, lowestCost)
    /\ pc' = "final"
    /\ UNCHANGED <<modelCache, backend, tfModel, volDen, failure, minVolume, maxVolume,
                   initialStepSize, bestVolume, lowestCost, refinedMin, refinedMax, calls,
                   evaluated, thrown, settled, result,
                   cacheAtCall, cancelRequested>>
    /\ UNCHANGED pairVars
    /\ UNCHANGED componentVars

\* Final pass, one iteration
FinalPassStep ==
    /\ pc = "final"
    /\ Continue(volume, finalMax)
    /\ LoopBody(FinalStep)

\* Final pass exhausted: return the rounded pair
Return ==
    /\ pc = "final"
    /\ ~Continue(volume, finalMax)
    /\ result' = {[volume |-> MathRound(bestVolume, volDen),
                   cost   |-> MathRound(lowestCost, CostDen)]}
    /\ passLowest' = Append(passLowest, lowestCost)
    /\ settled' = "fulfilled"
    /\ pc' = "done"
    /\ UNCHANGED <<modelCache, backend, tfModel, volDen, failure, minVolume, maxVolume,
                   initialStepSize, volume, bestVolume, lowestCost, refinedMin, refinedMax,
                   finalMin, finalMax, calls, evaluated, thrown,
                   cacheAtCall, cancelRequested>>
    /\ UNCHANGED pairVars
    /\ UNCHANGED componentVars

\* The caller decides, while its search is running, that it wants it stopped.
\* findOptimalProductionVolume takes no cancellation signal and reads none.
RequestCancel ==
    /\ pc \in {"coarse", "refine", "final"}
    /\ ~cancelRequested
    /\ cancelRequested' = TRUE
    /\ UNCHANGED <<modelCache, backend, tfModel, volDen, failure, minVolume, maxVolume,
                   initialStepSize, pc, volume, bestVolume, lowestCost, refinedMin,
                   refinedMax, finalMin, finalMax, calls, evaluated, passLowest, thrown,
                   settled, result, cacheAtCall>>
    /\ UNCHANGED pairVars
    /\ UNCHANGED componentVars

\* What the environment may be: the model file loads or not; if it loads it
\* computes one function of a family, and one of its first predict calls may fail.
Tables == [0..(TableSize - 1) -> 0..MaxLevel]
NoTable == [i \in 0..(TableSize - 1) |-> 0]
TfModels ==
    {[kind |-> "table", tab |-> t, centre |-> 0, flat |-> 0] : t \in Tables}
    \cup {[kind |-> "bowl", tab |-> NoTable, centre |-> c - NormMin, flat |-> f] :
             c \in VolumeChoices, f \in {0, VolStride}}
NoFailure == [at |-> 0, error |-> "none"]
Failures ==
    {NoFailure}
    \cup {[at |-> n, error |-> e] : n \in 1..MaxFailAt, e \in {"PredictError", "DataError"}}

\* The components and the data singleton as they are constructed
DemandIdle ==
    /\ features = <<>>
    /\ prediction = {}
LoadsIdle == loads = <<>>
OptimizationInit ==
    /\ isLoading = FALSE
    /\ error = "null"
    /\ optimizationDone = FALSE
    /\ predictedCost = "null"
    /\ optimalVolume = "null"
    /\ costChartData = "null"
    /\ inFlight = <<>>
AppInit ==
    /\ activeTab = "dashboard"
    /\ lastNavigation = [flip |-> FALSE, detail |-> "undefined"]
EdaInit ==
    /\ data = {}
    /\ columns = <<>>
    /\ xAxisColumn = ""
    /\ yAxisColumn = ""
    /\ chartData = {}
    /\ parsing = {}
\* The singleton as its constructor leaves it
DataInit ==
    /\ supplyChainData = [data |-> <<>>, isLoaded |-> FALSE, productTypes |-> <<>>,
                          suppliers |-> <<>>, locations |-> <<>>, transportModes |-> <<>>,
                          carriers |-> <<>>]
    /\ downloads = {}
ComponentsIdle ==
    /\ DemandIdle
    /\ LoadsIdle
    /\ OptimizationInit
    /\ AppInit
    /\ EdaInit
    /\ DataInit

Init ==
    /\ modelCache = [costOptimization |-> "null", demandForecast |-> "null"]
    /\ backend \in {"ok", "down"}
    /\ tfModel \in TfModels
    /\ volDen = 1
    /\ failure \in Failures
    /\ backend = "down" => (tfModel = [kind |-> "table", tab |-> NoTable, centre |-> 0, flat |-> 0]
                            /\ failure = NoFailure)
    /\ minVolume = DefaultMinVolume
    /\ maxVolume = DefaultMaxVolume
    /\ initialStepSize = DefaultStep
    /\ pc = "idle"
    /\ volume = 0
    /\ bestVolume = 0
    /\ lowestCost = Infinity
    /\ refinedMin = 0 /\ refinedMax = 0 /\ finalMin = 0 /\ finalMax = 0
    /\ calls = <<>>
    /\ evaluated = <<>>
    /\ passLowest = <<>>
    /\ thrown = "none"
    /\ settled = "pending"
    /\ result = {}
    /\ cacheAtCall = [costOptimization |-> "null", demandForecast |-> "null"]
    /\ cancelRequested = FALSE
    /\ searches = <<>>
    /\ running = <<>>
    /\ ComponentsIdle

\* Loaded models with a narrow dip: a table lifted by one level everywhere but
\* at one volume.
DipModels ==
    {[kind |-> "dip", tab |-> t, centre |-> c - NormMin, flat |-> 0] :
         t \in Tables, c \in VolumeChoices}

\* The environment of a search whose predictions do not fail, the models with a
\* dip included.
DipInit ==
    /\ modelCache = [costOptimization |-> "null", demandForecast |-> "null"]
    /\ backend \in {"ok", "down"}
    /\ tfModel \in TfModels \cup DipModels
    /\ volDen = 1
    /\ failure = NoFailure
    /\ backend = "down" => tfModel = [kind |-> "table", tab |-> NoTable, centre |-> 0, flat |-> 0]
    /\ minVolume = DefaultMinVolume
    /\ maxVolume = DefaultMaxVolume
    /\ initialStepSize = DefaultStep
    /\ pc = "idle"
    /\ volume = 0
    /\ bestVolume = 0
    /\ lowestCost = Infinity
    /\ refinedMin = 0 /\ refinedMax = 0 /\ finalMin = 0 /\ finalMax = 0
    /\ calls = <<>>
    /\ evaluated = <<>>
    /\ passLowest = <<>>
    /\ thrown = "none"
    /\ settled = "pending"
    /\ result = {}
    /\ cacheAtCall = [costOptimization |-> "null", demandForecast |-> "null"]
    /\ cancelRequested = FALSE
    /\ searches = <<>>
    /\ running = <<>>
    /\ ComponentsIdle

Next ==
    \/ DashboardLoad
    \/ \E args \in Arguments : Call(args[1], args[2], args[3])
    \/ CoarseStep
    \/ CoarseExit
    \/ RefineStep
    \/ RefineExit
    \/ FinalPassStep
    \/ Return
    \/ RequestCancel

Spec == Init /\ [][Next]_vars

DipSpec == DipInit /\ [][Next]_vars

\* The Optimization form passes Number(e.target.value) of its inputs: range ends
\* that are fractions, here multiples of 1 / VolParts, with a step of
\* 50 / VolParts.
FracArguments == {<<a, b, 50>> : a \in 0..MaxPart, b \in 0..MaxPart}

\* The environment of a search over fractional volumes: the model file loads
\* and no prediction fails (the fallback parabola is modelled for whole volumes).
FracInit ==
    /\ modelCache = [costOptimization |-> "null", demandForecast |-> "null"]
    /\ backend = "ok"
    /\ tfModel \in TfModels
    /\ volDen = VolParts
    /\ failure = NoFailure
    /\ minVolume = DefaultMinVolume * volDen
    /\ maxVolume = DefaultMaxVolume * volDen
    /\ initialStepSize = DefaultStep * volDen
    /\ pc = "idle"
    /\ volume = 0
    /\ bestVolume = 0
    /\ lowestCost = Infinity
    /\ refinedMin = 0 /\ refinedMax = 0 /\ finalMin = 0 /\ finalMax = 0
    /\ calls = <<>>
    /\ evaluated = <<>>
    /\ passLowest = <<>>
    /\ thrown = "none"
    /\ settled = "pending"
    /\ result = {}
    /\ cacheAtCall = [costOptimization |-> "null", demandForecast |-> "null"]
    /\ cancelRequested = FALSE
    /\ searches = <<>>
    /\ running = <<>>
    /\ ComponentsIdle

FracNext ==
    \/ DashboardLoad
    \/ \E args \in FracArguments : Call(args[1], args[2], args[3])
    \/ CoarseStep
    \/ CoarseExit
    \/ RefineStep
    \/ RefineExit
    \/ FinalPassStep
    \/ Return
    \/ RequestCancel

FracSpec == FracInit /\ [][FracNext]_vars

\* A search that has been called runs on: the event loop resumes the function
\* whenever the promise it awaits has settled.
SearchStep ==
    CoarseStep \/ CoarseExit \/ RefineStep \/ RefineExit \/ FinalPassStep \/ Return
FairSpec == Spec /\ WF_vars(SearchStep)

TypeOK ==
    /\ modelCache.costOptimization \in {"null", "loaded", "fallback"}
    /\ pc \in {"idle", "coarse", "refine", "final", "done", "failed"}
    /\ Len(evaluated) <= Len(calls)
    /\ Cardinality(result) <= 1

-----------------------------------------------------------------------------
(* Two concurrent invocations of findOptimalProductionVolume: the search of the *)
(* Dashboard's mount effect and a search started from the Optimization tab.     *)
(* Each await is a suspension point at which the other invocation may run.      *)

SearchIds == {1, 2}

\* The search of each caller: Dashboard calls (100, 1000, 100); the Optimization
\* form starts with (100, 1000, 50) and takes what the user types.
PairArguments(i) ==
    IF i = 1 THEN {<<100, 1000, 100>>}
    ELSE {<<100, 1000, 50>>, <<0, 2 * VolStride, 50>>}

IdleSearch ==
    [pc |-> "idle", minVolume |-> DefaultMinVolume, maxVolume |-> DefaultMaxVolume,
     initialStepSize |-> DefaultStep, volume |-> 0, hi |-> 0, phase |-> "run",
     model |-> "null", outstanding |-> 0, issued |-> <<>>, log |-> <<>>, result |-> {},
     overlapped |-> FALSE]

\* A variant in which bestVolume and lowestCost are module-level variables that
\* every invocation shares.
SharedScope(i) == 1

\* `let bestVolume`, `let lowestCost` are declared in the function body: every
\* invocation has its own pair.
Scope(i) == i

\* A variant of the loop that does not wait for the evaluator's promise.
IssuesWithoutAwait(s) == TRUE

\* `await predictManufacturingCost(volume)`: the loop goes on only when the call
\* it made has settled.
MayIssue(s) == s.outstanding = 0

\* The step of the pass a search is in
StepOf(s) ==
    IF s.pc = "coarse" THEN s.initialStepSize
    ELSE IF s.pc = "refine" THEN s.initialStepSize \div 10
    ELSE (s.initialStepSize \div 10) \div 5

\* The Dashboard's effect awaits loadCostOptimizationModel() before it starts its
\* search; runOptimization starts its search at once.
Entry(i) == IF i = 1 THEN "mounted" ELSE "idle"

\* `const costModel = await loadCostOptimizationModel()` of the mount effect
PairMount ==
    /\ searches[1].pc = "idle"
    /\ modelCache' = LoadCostOptimizationModel(modelCache).cache
    /\ searches' = [searches EXCEPT ![1].pc = "mounted"]
    /\ UNCHANGED <<backend, tfModel, volDen, failure, minVolume, maxVolume,
                   initialStepSize, pc, volume, bestVolume, lowestCost, refinedMin,
                   refinedMax, finalMin, finalMax, calls, evaluated, passLowest, thrown,
                   settled, result, cacheAtCall, cancelRequested, running,
                   componentVars>>

PairCall(i, a, b, st) ==
    /\ searches[i].pc = Entry(i)
    /\ searches' = [searches EXCEPT ![i] =
           [IdleSearch EXCEPT !.pc = "coarse", !.minVolume = a, !.maxVolume = b,
                              !.initialStepSize = st, !.volume = a, !.hi = b]]
    /\ running' = [running EXCEPT ![Scope(i)] = [bestVolume |-> a, lowestCost |-> Infinity]]
    /\ UNCHANGED <<modelCache, backend, tfModel, volDen, failure, minVolume, maxVolume,
                   initialStepSize, pc, volume, bestVolume, lowestCost, refinedMin,
                   refinedMax, finalMin, finalMax, calls, evaluated, passLowest, thrown,
                   settled, result, cacheAtCall, cancelRequested, componentVars>>

\* The loop calls predictManufacturingCost(volume), which awaits
\* loadCostOptimizationModel(): with a cached model it goes on to predict, with
\* none it starts tf.loadLayersModel and is suspended until the load settles.
PairIssue(i) ==
    LET s == searches[i]
    IN  /\ s.pc \in {"coarse", "refine", "final"}
        /\ Continue(s.volume, s.hi)
        /\ MayIssue(s)
        /\ Len(s.issued) < MaxCalls
        /\ searches' = [searches EXCEPT ![i] =
               [s EXCEPT !.outstanding = s.outstanding + 1,
                         !.issued = Append(s.issued, [pass |-> s.pc, volume |-> s.volume]),
                         !.overlapped = s.overlapped
                                        \/ \E j \in SearchIds \ {i} : searches[j].outstanding > 0,
                         !.phase = IF modelCache.costOptimization # "null"
                                   THEN "predicting" ELSE "loading",
                         !.model = modelCache.costOptimization]]
        /\ UNCHANGED <<modelCache, backend, tfModel, volDen, failure, minVolume, maxVolume,
                       initialStepSize, pc, volume, bestVolume, lowestCost, refinedMin,
                       refinedMax, finalMin, finalMax, calls, evaluated, passLowest, thrown,
                       settled, result, cacheAtCall, cancelRequested, running,
                   componentVars>>

\* The load this invocation started has settled: the model, or the fallback
\* model, is stored in modelCache, whatever it holds by now, and returned.
PairLoaded(i) ==
    LET s == searches[i]
        l == LoadCostOptimizationModel([modelCache EXCEPT !.costOptimization = "null"])
    IN  /\ s.phase = "loading"
        /\ modelCache' = [modelCache EXCEPT !.costOptimization = l.model]
        /\ searches' = [searches EXCEPT ![i] = [s EXCEPT !.phase = "predicting",
                                                         !.model = l.model]]
        /\ UNCHANGED <<backend, tfModel, volDen, failure, minVolume, maxVolume,
                       initialStepSize, pc, volume, bestVolume, lowestCost, refinedMin,
                       refinedMax, finalMin, finalMax, calls, evaluated, passLowest, thrown,
                       settled, result, cacheAtCall, cancelRequested, running,
                   componentVars>>

\* prediction.data() has settled: the cost is denormalised and returned to the
\* loop, which keeps the pair if it is an improvement and advances volume.
PairSettle(i) ==
    LET s == searches[i]
        p == ModelPredict(s.model, NormalizeProductionVolume(s.volume), Len(s.log) + 1)
        cost == DenormalizeCost(p.out)
    IN  /\ s.phase = "predicting"
        /\ s.outstanding > 0
        /\ IF p.threw # "none"
           THEN /\ searches' = [searches EXCEPT ![i] =
                       [s EXCEPT !.pc = "failed", !.phase = "run",
                                 !.outstanding = s.outstanding - 1]]
                /\ UNCHANGED running
           ELSE /\ searches' = [searches EXCEPT ![i] =
                       [s EXCEPT !.phase = "run",
                                 !.outstanding = s.outstanding - 1,
                                 !.log = Append(s.log, [pass |-> s.pc, volume |-> s.volume,
                                                        cost |-> cost]),
                                 !.volume = Advance(s.volume, StepOf(s))]]
                /\ IF IsImprovement(cost, running[Scope(i)].lowestCost)
                   THEN running' = [running EXCEPT ![Scope(i)] =
                                       [bestVolume |-> s.volume, lowestCost |-> cost]]
                   ELSE UNCHANGED running
        /\ UNCHANGED <<modelCache, backend, tfModel, volDen, failure, minVolume, maxVolume,
                       initialStepSize, pc, volume, bestVolume, lowestCost, refinedMin,
                       refinedMax, finalMin, finalMax, calls, evaluated, passLowest, thrown,
                       settled, result, cacheAtCall, cancelRequested, componentVars>>

\* A loop is exhausted: the next pass's window around bestVolume, or the return.
PairExit(i) ==
    LET s == searches[i]
        best == running[Scope(i)]
    IN  /\ s.pc \in {"coarse", "refine", "final"}
        /\ s.phase = "run"
        /\ s.outstanding = 0
        /\ ~Continue(s.volume, s.hi)
        /\ searches' = [searches EXCEPT ![i] =
               IF s.pc = "final"
               THEN [s EXCEPT !.pc = "done",
                              !.result = {[volume |-> MathRound(best.bestVolume, volDen),
                                           cost   |-> MathRound(best.lowestCost, CostDen)]}]
               ELSE [s EXCEPT !.pc = IF s.pc = "coarse" THEN "refine" ELSE "final",
                              !.volume = WindowMin(s.minVolume, best.bestVolume, StepOf(s)),
                              !.hi = WindowMax(s.maxVolume, best.bestVolume, StepOf(s))]]
        /\ UNCHANGED <<modelCache, backend, tfModel, volDen, failure, minVolume, maxVolume,
                       initialStepSize, pc, volume, bestVolume, lowestCost, refinedMin,
                       refinedMax, finalMin, finalMax, calls, evaluated, passLowest, thrown,
                       settled, result, cacheAtCall, cancelRequested, running,
                   componentVars>>

PairInit ==
    /\ modelCache = [costOptimization |-> "null", demandForecast |-> "null"]
    /\ backend \in {"ok", "down"}
    /\ tfModel \in TfModels
    /\ tfModel.kind = "bowl"
    /\ volDen = 1
    /\ failure = NoFailure
    /\ backend = "down" => tfModel.centre = 0 - NormMin /\ tfModel.flat = 0
    /\ minVolume = DefaultMinVolume
    /\ maxVolume = DefaultMaxVolume
    /\ initialStepSize = DefaultStep
    /\ pc = "idle"
    /\ volume = 0
    /\ bestVolume = 0
    /\ lowestCost = Infinity
    /\ refinedMin = 0 /\ refinedMax = 0 /\ finalMin = 0 /\ finalMax = 0
    /\ calls = <<>>
    /\ evaluated = <<>>
    /\ passLowest = <<>>
    /\ thrown = "none"
    /\ settled = "pending"
    /\ result = {}
    /\ cacheAtCall = [costOptimization |-> "null", demandForecast |-> "null"]
    /\ cancelRequested = FALSE
    /\ searches = [i \in SearchIds |-> IdleSearch]
    /\ running = [i \in SearchIds |-> [bestVolume |-> 0, lowestCost |-> Infinity]]
    /\ ComponentsIdle

PairNext ==
    \/ PairMount
    \/ \E i \in SearchIds :
        \/ \E args \in PairArguments(i) : PairCall(i, args[1], args[2], args[3])
        \/ PairIssue(i)
        \/ PairLoaded(i)
        \/ PairSettle(i)
        \/ PairExit(i)

PairSpec == PairInit /\ [][PairNext]_vars

-----------------------------------------------------------------------------
(* The other functions and the components *)

\* modelLoader with nothing loaded and no search called
LoaderIdle ==
    /\ modelCache = [costOptimization |-> "null", demandForecast |-> "null"]
    /\ backend = "ok"
    /\ tfModel = [kind |-> "table", tab |-> NoTable, centre |-> 0, flat |-> 0]
    /\ volDen = 1
    /\ failure = NoFailure
    /\ minVolume = DefaultMinVolume
    /\ maxVolume = DefaultMaxVolume
    /\ initialStepSize = DefaultStep
    /\ pc = "idle"
    /\ volume = 0
    /\ bestVolume = 0
    /\ lowestCost = Infinity
    /\ refinedMin = 0 /\ refinedMax = 0 /\ finalMin = 0 /\ finalMax = 0
    /\ calls = <<>>
    /\ evaluated = <<>>
    /\ passLowest = <<>>
    /\ thrown = "none"
    /\ settled = "pending"
    /\ result = {}
    /\ cacheAtCall = [costOptimization |-> "null", demandForecast |-> "null"]
    /\ cancelRequested = FALSE
    /\ searches = <<>>
    /\ running = <<>>

(* predictDemand *)

\* The weights of predictDemand, in tenths
weights ==
    [price |-> 0 - 35, availability |-> 28, stockLevels |-> 12, leadTimes |-> 0 - 20,
     orderQuantities |-> 8]
baseline == 850
ScaleFactor == 120

\* weightedSum as a numerator over WeightDen: the divisors 10, 25, 40, 5 and 20
\* of the five terms all divide 200, and the weights are tenths.
WeightDen == 200 * 10
WeightedSum(f) ==
      (f.price - 50) * (200 \div 10) * weights.price
    + (f.availability - 75) * (200 \div 25) * weights.availability
    + (f.stockLevels - 60) * (200 \div 40) * weights.stockLevels
    + (f.leadTimes - 7) * (200 \div 5) * weights.leadTimes
    + (f.orderQuantities - 30) * (200 \div 20) * weights.orderQuantities

\* baseline + weightedSum * 120, as the fraction num / den with den = 50
\* (120 / WeightDen is 3 / 50)
ScaledPrediction(f) ==
    [num |-> baseline * 50 + (WeightedSum(f) * ScaleFactor) \div (WeightDen \div 50),
     den |-> 50]

\* `if (cond) prediction *= tenths / 10`
Threshold(p, cond, tenths) ==
    IF cond THEN [num |-> p.num * tenths, den |-> p.den * 10] ELSE p

\* prediction after the three threshold effects
AdjustedPrediction(f) ==
    Threshold(Threshold(Threshold(ScaledPrediction(f), f.price > 100, 7),
                        f.availability < 30, 6),
              f.leadTimes > 14, 8)

\* A variant of predictDemand that rounds without clamping at zero.
PredictDemandUnclamped(f) ==
    MathRound(AdjustedPrediction(f).num, AdjustedPrediction(f).den)

\* predictDemand: Math.max(0, Math.round(prediction))
PredictDemand(f) ==
    Max(0, MathRound(AdjustedPrediction(f).num, AdjustedPrediction(f).den))

\* The feature objects the callers pass: numbers of a form field or of a CSV cell
FeatureChoices ==
    [price : {0, 50, 101, 500}, availability : {0 - 50, 29, 75, 100},
     stockLevels : {0, 60, 100}, leadTimes : {0, 7, 15, 60},
     orderQuantities : {0, 30, 96}]

CallPredictDemand(f) ==
    /\ features' = f
    /\ prediction' = {PredictDemand(f)}
    /\ UNCHANGED <<searchVars, pairVars, loads, optimizationVars, appVars, edaVars,
                   dataVars>>

DemandInit == LoaderIdle /\ ComponentsIdle
DemandNext == \E f \in FeatureChoices : CallPredictDemand(f)
DemandSpec == DemandInit /\ [][DemandNext]_vars

(* Concurrent callers of loadCostOptimizationModel *)

\* The mount effect of Dashboard and the two handlers of Optimization, which
\* reach the loader through predictManufacturingCost
Callers == {"Dashboard", "predictCost", "runOptimization"}

\* Model objects are numbered in the order they are made; 0 stands for null.
LoadInit ==
    /\ LoaderIdle
    /\ DemandIdle /\ OptimizationInit /\ AppInit /\ EdaInit /\ DataInit
    /\ loads = [costOptimization |-> 0, started |-> 0, objects |-> <<>>,
                callers |-> [c \in Callers |-> [phase |-> "idle", got |-> 0]]]

\* A caller enters loadCostOptimizationModel: with a cached model it returns
\* it; with none it starts tf.loadLayersModel and is suspended at the await.
LoadCall(c) ==
    /\ loads.callers[c].phase = "idle"
    /\ loads' =
           IF loads.costOptimization # 0
           THEN [loads EXCEPT !.callers[c] = [phase |-> "done",
                                              got |-> loads.costOptimization]]
           ELSE [loads EXCEPT !.started = loads.started + 1,
                              !.callers[c] = [phase |-> "loading", got |-> 0]]
    /\ UNCHANGED <<searchVars, pairVars, demandVars, optimizationVars, appVars, edaVars,
                   dataVars>>

\* The load of a suspended caller settles: the model it made, or after a failed
\* load the fallback model made in the catch block, is stored in the cache and
\* returned to this caller.
LoadSettle(c, ok) ==
    LET id == Len(loads.objects) + 1
    IN  /\ loads.callers[c].phase = "loading"
        /\ loads' = [loads EXCEPT !.costOptimization = id,
                                  !.objects = Append(loads.objects,
                                                     IF ok THEN "loaded" ELSE "fallback"),
                                  !.callers[c] = [phase |-> "done", got |-> id]]
        /\ UNCHANGED <<searchVars, pairVars, demandVars, optimizationVars, appVars,
                       edaVars, dataVars>>

LoadNext ==
    \E c \in Callers :
        \/ LoadCall(c)
        \/ \E ok \in BOOLEAN : LoadSettle(c, ok)

LoadSpec == LoadInit /\ [][LoadNext]_vars

(* App and the Optimization component *)

Tabs == {"dashboard", "eda", "forecasting", "optimization"}

\* What the detail of a 'navigate-tab' event may be: a tab, nothing, the empty
\* string, or another string
Details == Tabs \cup {"undefined", "", "settings"}

\* A variant of the listener that takes any detail that is there.
AcceptsAnyDetail(detail) == detail \notin {"undefined", ""}

\* event.detail && [...].includes(event.detail)
Accepts(detail) == detail \notin {"undefined", ""} /\ detail \in Tabs

\* onSelect={(k) => setActiveTab(k)} of the Tab.Container: k is the eventKey of
\* the Nav.Link that was clicked
SelectTab(k) ==
    /\ activeTab' = k
    /\ UNCHANGED <<searchVars, pairVars, demandVars, loads, optimizationVars, lastNavigation,
                   edaVars, dataVars>>

\* handleTabNavigation
NavigateTab(detail) ==
    /\ activeTab' = IF Accepts(detail) THEN detail ELSE activeTab
    /\ lastNavigation' = [flip |-> ~lastNavigation.flip, detail |-> detail]
    /\ UNCHANGED <<searchVars, pairVars, demandVars, loads, optimizationVars, edaVars,
                   dataVars>>

Remove(seq, i) == [k \in 1..(Len(seq) - 1) |-> IF k < i THEN seq[k] ELSE seq[k + 1]]

\* A variant of the catch blocks that leaves isLoading as it is.
LeavesLoading(loading) == loading

\* setIsLoading(false) of the catch blocks of predictCost and runOptimization
LoadingAfterFailure(loading) == FALSE

\* A click on Calculate Cost (disabled while isLoading): predictCost up to its
\* await
PredictCostClick ==
    /\ ~isLoading
    /\ Len(inFlight) < MaxInFlight
    /\ isLoading' = TRUE
    /\ error' = "null"
    /\ inFlight' = Append(inFlight, "predictCost")
    /\ UNCHANGED <<searchVars, pairVars, demandVars, loads, optimizationDone, predictedCost,
                   optimalVolume, costChartData, appVars, edaVars, dataVars>>

\* predictManufacturingCost settles in predictCost: the rest of the try block,
\* or the catch block
PredictCostSettle(i, ok) ==
    /\ inFlight[i] = "predictCost"
    /\ inFlight' = Remove(inFlight, i)
    /\ IF ok
       THEN /\ predictedCost' = "set"
            /\ isLoading' = FALSE
            /\ UNCHANGED error
       ELSE /\ error' = "Error predicting manufacturing cost"
            /\ isLoading' = LoadingAfterFailure(isLoading)
            /\ UNCHANGED predictedCost
    /\ UNCHANGED <<searchVars, pairVars, demandVars, loads, optimizationDone,
                   optimalVolume, costChartData, appVars, edaVars, dataVars>>

\* A click on Find Optimal Volume (disabled while isLoading): runOptimization up
\* to its first await
RunOptimizationClick ==
    /\ ~isLoading
    /\ Len(inFlight) < MaxInFlight
    /\ isLoading' = TRUE
    /\ error' = "null"
    /\ optimizationDone' = FALSE
    /\ inFlight' = Append(inFlight, "search")
    /\ UNCHANGED <<searchVars, pairVars, demandVars, loads, predictedCost,
                   optimalVolume, costChartData, appVars, edaVars, dataVars>>

\* findOptimalProductionVolume settles in runOptimization: it failed (catch
\* block), or it returned and the cost-curve loop awaits its first evaluation,
\* or it returned and the loop has no volume to evaluate.
SearchSettle(i, outcome) ==
    /\ inFlight[i] = "search"
    /\ CASE outcome = "failed" ->
              /\ error' = "Error during optimization"
              /\ isLoading' = LoadingAfterFailure(isLoading)
              /\ inFlight' = Remove(inFlight, i)
              /\ UNCHANGED <<optimalVolume, costChartData, optimizationDone>>
         [] outcome = "curve" ->
              /\ optimalVolume' = "set"
              /\ inFlight' = [inFlight EXCEPT ![i] = "curve"]
              /\ UNCHANGED <<error, isLoading, costChartData, optimizationDone>>
         [] outcome = "finished" ->
              /\ optimalVolume' = "set"
              /\ costChartData' = "set"
              /\ isLoading' = FALSE
              /\ optimizationDone' = TRUE
              /\ inFlight' = Remove(inFlight, i)
              /\ UNCHANGED error
    /\ UNCHANGED <<searchVars, pairVars, demandVars, loads, predictedCost, appVars, edaVars,
                   dataVars>>

\* The last evaluation of the cost-curve loop settles, or one of them fails.
CurveSettle(i, ok) ==
    /\ inFlight[i] = "curve"
    /\ inFlight' = Remove(inFlight, i)
    /\ IF ok
       THEN /\ costChartData' = "set"
            /\ isLoading' = FALSE
            /\ optimizationDone' = TRUE
            /\ UNCHANGED error
       ELSE /\ error' = "Error during optimization"
            /\ isLoading' = LoadingAfterFailure(isLoading)
            /\ UNCHANGED <<costChartData, optimizationDone>>
    /\ UNCHANGED <<searchVars, pairVars, demandVars, loads, predictedCost, optimalVolume,
                   appVars, edaVars, dataVars>>

UiInit == LoaderIdle /\ ComponentsIdle

UiNext ==
    \/ \E k \in Tabs : SelectTab(k)
    \/ \E detail \in Details : NavigateTab(detail)
    \/ PredictCostClick
    \/ RunOptimizationClick
    \/ \E i \in 1..Len(inFlight) :
           \/ \E ok \in BOOLEAN : PredictCostSettle(i, ok)
           \/ \E outcome \in {"failed", "curve", "finished"} : SearchSettle(i, outcome)
           \/ \E ok \in BOOLEAN : CurveSettle(i, ok)

UiSpec == UiInit /\ [][UiNext]_vars

(* The EDA component *)

ColumnNames == {"a", "b", "c"}

\* An uploaded CSV file, as Papa.parse reports it: its header fields
\* (results.meta.fields), which are the keys of every row of results.data
Files ==
    {f \in UNION {[1..n -> ColumnNames] : n \in 0..MaxFields} :
        \A i, j \in 1..Len(f) : f[i] = f[j] => i = j}

ColumnsOf(f) == {f[i] : i \in 1..Len(f)}

\* handleFileUpload with a CSV file, up to the call of Papa.parse
FileChosen(f) ==
    /\ Cardinality(parsing) < MaxParsing
    /\ f \notin parsing
    /\ chartData' = {}
    /\ parsing' = parsing \cup {f}
    /\ UNCHANGED <<searchVars, pairVars, demandVars, loads, optimizationVars, appVars,
                   data, columns, xAxisColumn, yAxisColumn, supplyChainData, downloads>>

\* The `complete` callback of Papa.parse without parse errors
ParseComplete(f) ==
    /\ f \in parsing
    /\ parsing' = parsing \ {f}
    /\ data' = {f}
    /\ columns' = f
    /\ xAxisColumn' = IF Len(f) > 0 THEN f[1] ELSE xAxisColumn
    /\ yAxisColumn' = IF Len(f) > 1 THEN f[2] ELSE yAxisColumn
    /\ UNCHANGED <<searchVars, pairVars, demandVars, loads, optimizationVars, appVars,
                   chartData, dataVars>>

\* The `complete` callback with parse errors, or the `error` callback: only
\* error and loading change
ParseFailed(f) ==
    /\ f \in parsing
    /\ parsing' = parsing \ {f}
    /\ UNCHANGED <<searchVars, pairVars, demandVars, loads, optimizationVars, appVars,
                   data, columns, xAxisColumn, yAxisColumn, chartData, dataVars>>

\* resetData
ResetData ==
    /\ data' = {}
    /\ columns' = <<>>
    /\ chartData' = {}
    /\ UNCHANGED <<searchVars, pairVars, demandVars, loads, optimizationVars, appVars,
                   xAxisColumn, yAxisColumn, parsing, dataVars>>

\* The options of the two axis selects: 'Select Column' and the columns
AxisOptions == {""} \cup ColumnsOf(columns)

\* onChange of the X-Axis Column select
ChooseXAxis(c) ==
    /\ c \in AxisOptions
    /\ xAxisColumn' = c
    /\ UNCHANGED <<searchVars, pairVars, demandVars, loads, optimizationVars, appVars,
                   data, columns, yAxisColumn, chartData, parsing, dataVars>>

\* onChange of the Y-Axis Column select
ChooseYAxis(c) ==
    /\ c \in AxisOptions
    /\ yAxisColumn' = c
    /\ UNCHANGED <<searchVars, pairVars, demandVars, loads, optimizationVars, appVars,
                   data, columns, xAxisColumn, chartData, parsing, dataVars>>

\* generateChart: row[xAxisColumn] and row[yAxisColumn] of every row of data
GenerateChart ==
    /\ data # {}
    /\ xAxisColumn # ""
    /\ yAxisColumn # ""
    /\ chartData' = {[labels |-> xAxisColumn, values |-> yAxisColumn]}
    /\ UNCHANGED <<searchVars, pairVars, demandVars, loads, optimizationVars, appVars,
                   data, columns, xAxisColumn, yAxisColumn, parsing, dataVars>>

EdaSpecInit == LoaderIdle /\ ComponentsIdle

EdaNext ==
    \/ \E f \in Files : FileChosen(f) \/ ParseComplete(f) \/ ParseFailed(f)
    \/ ResetData
    \/ \E c \in ColumnNames \cup {""} : ChooseXAxis(c) \/ ChooseYAxis(c)
    \/ GenerateChart

EdaSpec == EdaSpecInit /\ [][EdaNext]_vars

(* The SupplyChainData singleton *)

\* A row of the data file, by the five columns extractMetadata reads:
\* 'Product type', 'Supplier name', 'Location', 'Transportation modes',
\* 'Shipping carriers'
Rows ==
    [productType : {"skincare", "haircare"}, supplier : {"Supplier 1"},
     location : {"Mumbai"}, transportMode : {"Road", "Air"}, carrier : {"Carrier A"}]

\* The CSV files loadData may be given: up to MaxRows rows
CsvFiles == UNION {[1..n -> Rows] : n \in 0..MaxRows}

\* [...new Set(values)]: the distinct values in the order they first occur
Distinct(values) ==
    LET F[i \in 0..Len(values)] ==
            IF i = 0 THEN <<>>
            ELSE IF \E k \in 1..Len(F[i - 1]) : F[i - 1][k] = values[i]
                 THEN F[i - 1]
                 ELSE Append(F[i - 1], values[i])
    IN  F[Len(values)]

\* extractMetadata
ExtractMetadata(d) ==
    IF ~d.isLoaded \/ Len(d.data) = 0 THEN d
    ELSE [d EXCEPT !.productTypes = Distinct([i \in 1..Len(d.data) |-> d.data[i].productType]),
                   !.suppliers = Distinct([i \in 1..Len(d.data) |-> d.data[i].supplier]),
                   !.locations = Distinct([i \in 1..Len(d.data) |-> d.data[i].location]),
                   !.transportModes =
                       Distinct([i \in 1..Len(d.data) |-> d.data[i].transportMode]),
                   !.carriers = Distinct([i \in 1..Len(d.data) |-> d.data[i].carrier])]

\* loadData up to Papa.parse: the download starts
LoadData(f) ==
    /\ Cardinality(downloads) < MaxDownloads
    /\ f \notin downloads
    /\ downloads' = downloads \cup {f}
    /\ UNCHANGED <<searchVars, pairVars, demandVars, loads, optimizationVars, appVars,
                   edaVars, supplyChainData>>

\* The `complete` callback of loadData
LoadDataComplete(f) ==
    /\ f \in downloads
    /\ downloads' = downloads \ {f}
    /\ supplyChainData' =
           ExtractMetadata([supplyChainData EXCEPT !.data = f, !.isLoaded = TRUE])
    /\ UNCHANGED <<searchVars, pairVars, demandVars, loads, optimizationVars, appVars,
                   edaVars>>

\* The `error` callback of loadData: the promise is rejected
LoadDataError(f) ==
    /\ f \in downloads
    /\ downloads' = downloads \ {f}
    /\ UNCHANGED <<searchVars, pairVars, demandVars, loads, optimizationVars, appVars,
                   edaVars, supplyChainData>>

DataSpecInit == LoaderIdle /\ ComponentsIdle
DataNext == \E f \in CsvFiles : LoadData(f) \/ LoadDataComplete(f) \/ LoadDataError(f)
DataSpec == DataSpecInit /\ [][DataNext]_vars

-----------------------------------------------------------------------------
(* Claims *)

ValidArguments == minVolume <= maxVolume /\ initialStepSize > 0

\* C1 (range respect): with minVolume <= maxVolume and initialStepSize > 0,
\* every volume the search passes to the evaluator, in any of the three
\* passes, lies in [minVolume, maxVolume].
C1_RangeRespect ==
    ValidArguments =>
        \A i \in 1..Len(calls) : minVolume <= calls[i] /\ calls[i] <= maxVolume

\* A finished search whose two windows were both cut at the caller's range
\* (bestVolume - radius fell below minVolume, bestVolume + radius above
\* maxVolume) and that evaluated in each pass.
C1_Witness ==
    /\ pc = "done"
    /\ ValidArguments
    /\ minVolume < maxVolume
    /\ refinedMin = minVolume /\ refinedMax = maxVolume
    /\ finalMin = minVolume
    /\ bestVolume - RefinedStep < minVolume
    /\ maxVolume - minVolume < initialStepSize
    /\ Len(calls) > 3

\* C2 (invalid range), as claimed: with minVolume > maxVolume the search makes
\* no evaluator call, never returns a result object and fails with
\* InvalidRangeError.
C2_InvalidRangeRejected ==
    (pc # "idle" /\ minVolume > maxVolume /\ initialStepSize > 0) =>
        /\ calls = <<>>
        /\ result = {}
        /\ (pc \in {"done", "failed"} => settled = "InvalidRangeError")

\* C3 (invalid step), as claimed: with initialStepSize <= 0 the search is
\* rejected with InvalidRangeError before any evaluator call.
C3_InvalidStepRejected ==
    (pc # "idle" /\ initialStepSize <= 0) =>
        /\ calls = <<>>
        /\ pc \notin {"refine", "final", "done"}
        /\ (pc = "failed" => settled = "InvalidRangeError")

\* C4 (degenerate range), as claimed: with minVolume = maxVolume a finished
\* search has called the evaluator exactly once, with that volume, and returns
\* {volume: minVolume, cost: evaluate(minVolume)}.
C4_SingleEvaluation ==
    (pc = "done" /\ minVolume = maxVolume /\ initialStepSize > 0) =>
        /\ calls = <<minVolume>>
        /\ \A r \in result : r.volume = minVolume /\ r.cost * CostDen = evaluated[1].cost

\* C4, amended: with minVolume = maxVolume and initialStepSize > 0 a finished
\* search has called the evaluator exactly three times, once per pass, each
\* time with that volume, and returns {volume: Math.round(minVolume),
\* cost: Math.round(evaluate(minVolume))}.
C4_OneCallPerPass ==
    (pc = "done" /\ minVolume = maxVolume /\ initialStepSize > 0) =>
        /\ calls = <<minVolume, minVolume, minVolume>>
        /\ Len(evaluated) = 3
        /\ result = {[volume |-> MathRound(minVolume, 1),
                      cost   |-> MathRound(evaluated[1].cost, CostDen)]}

\* A finished search over a single-point range whose cost is not a whole number.
C4_Witness ==
    /\ pc = "done"
    /\ minVolume = maxVolume
    /\ initialStepSize > 0
    /\ Len(calls) = 3
    /\ evaluated[1].cost % CostDen # 0

ReferenceRun ==
    /\ modelCache.costOptimization = "fallback"
    /\ minVolume = 100 /\ maxVolume = 10000 /\ initialStepSize = 500

\* C5 (reference optimum), as claimed: with the fallback evaluator,
\* findOptimalProductionVolume(100, 10000, 500) returns a volume within
\* finalStep (10) of 5000 and a cost within tolerance (1%) of 10000.
C5_ReferenceOptimum ==
    (pc = "done" /\ ReferenceRun) =>
        \A r \in result : /\ Abs(r.volume - 5000) <= FinalStep
                          /\ Abs(r.cost - 10000) <= 100

\* C6 (reference formula), as claimed: with the fallback model every cost the
\* evaluator returns is exactly 100000 * (x - 5000)^2 / 25000000 + 10000 with
\* x = ((volume - 100) / (10000 - 100)) * 10000, and so never below 10000.
C6_ReferenceFormula ==
    modelCache.costOptimization = "fallback" =>
        \A i \in 1..Len(evaluated) :
            /\ evaluated[i].cost = FallbackPredict(NormalizeProductionVolume(evaluated[i].volume))
            /\ evaluated[i].cost >= 10000 * CostDen

\* C7 (propagated failure): when the evaluator fails on its n-th call, the
\* search has failed with that same error, the failing call is its last
\* evaluator call, and it returns no result.
C7_PropagatedFailure ==
    (backend = "ok" /\ failure.at > 0 /\ Len(calls) >= failure.at) =>
        /\ pc = "failed"
        /\ thrown = failure.error
        /\ settled = failure.error
        /\ result = {}
        /\ Len(calls) = failure.at
        /\ Len(evaluated) = failure.at - 1

\* The evaluator failed on its 3rd call, in the middle of a pass.
C7_Witness ==
    /\ pc = "failed"
    /\ failure.at = 3
    /\ Len(calls) = 3
    /\ settled = "DataError"
    /\ volume <= maxVolume

C9_MonotonicImprovement ==
    /\ [][lowestCost' <= lowestCost]_vars
    /\ [](\A i, j \in 1..Len(passLowest) : i < j => passLowest[j] <= passLowest[i])

\* A finished search in which the refinement pass and the final pass each
\* lowered the cost the pass before had ended with.
C9_Witness ==
    /\ pc = "done"
    /\ Len(passLowest) = 3
    /\ passLowest[1] < Infinity
    /\ passLowest[2] < passLowest[1]
    /\ passLowest[3] < passLowest[2]
    /\ lowestCost = passLowest[3]

MinSampledCost == CHOOSE c \in {evaluated[i].cost : i \in 1..Len(evaluated)} :
                      \A i \in 1..Len(evaluated) : c <= evaluated[i].cost
FirstAtMinimum == CHOOSE i \in 1..Len(evaluated) :
                      /\ evaluated[i].cost = MinSampledCost
                      /\ \A j \in 1..(i - 1) : evaluated[j].cost # MinSampledCost

\* C10 (tie-break by visit order): at every point of a search the running best
\* is the first sample, in evaluation order over all passes, that has the
\* minimum sampled cost; a later sample of equal cost does not replace it, and
\* the returned volume is that sample's volume, rounded.
C10_FirstVisitedWins ==
    evaluated # <<>> =>
        /\ lowestCost = MinSampledCost
        /\ bestVolume = evaluated[FirstAtMinimum].volume
        /\ \A r \in result : r.volume = MathRound(evaluated[FirstAtMinimum].volume, 1)

\* A finished search that met the minimum cost in the coarse pass and met it
\* again, at another volume, in the final pass.
C10_Witness ==
    /\ pc = "done"
    /\ \E i, j \in 1..Len(evaluated) :
          /\ i < j
          /\ evaluated[i].pass = "coarse" /\ evaluated[j].pass = "final"
          /\ evaluated[i].cost = lowestCost /\ evaluated[j].cost = lowestCost
          /\ evaluated[i].volume # evaluated[j].volume
          /\ bestVolume = evaluated[i].volume

PassRank(p) == IF p = "coarse" THEN 1 ELSE IF p = "refine" THEN 2 ELSE 3

\* C11 (tie-break by lowest volume), as claimed: the returned volume is the
\* lowest of all sampled volumes that attain the minimum sampled cost, also
\* when they were sampled in different passes.
C11_LowestVolumeWins ==
    (pc = "done" /\ ValidArguments) =>
        \A r \in result : \A i \in 1..Len(evaluated) :
            evaluated[i].cost = MinSampledCost => r.volume <= evaluated[i].volume

\* C11, amended: with initialStepSize > 0 the running best is a sample of the
\* earliest pass that attained the minimum sampled cost and has the lowest
\* volume of the minimum-cost samples of that pass; a minimum-cost sample of a
\* later pass, at a lower volume or not, does not replace it.
C11_LowestVolumeOfEarliestPass ==
    (initialStepSize > 0 /\ evaluated # <<>>) =>
        \E k \in 1..Len(evaluated) :
            /\ evaluated[k].volume = bestVolume
            /\ evaluated[k].cost = lowestCost
            /\ \A i \in 1..Len(evaluated) :
                  evaluated[i].cost = MinSampledCost =>
                      \/ PassRank(evaluated[k].pass) < PassRank(evaluated[i].pass)
                      \/ /\ evaluated[k].pass = evaluated[i].pass
                         /\ evaluated[k].volume <= evaluated[i].volume

\* A finished search that kept its best although a later pass sampled the same
\* cost at a lower volume.
C11_Witness ==
    /\ pc = "done"
    /\ ValidArguments
    /\ \E j \in 1..Len(evaluated) :
          /\ evaluated[j].cost = lowestCost
          /\ evaluated[j].volume < bestVolume
          /\ evaluated[j].pass # "coarse"

\* C12 (result is a sampled best pair), as claimed: with minVolume <= maxVolume
\* and initialStepSize > 0 the returned {volume, cost} is one of the sampled
\* (volume, evaluate(volume)) pairs and its cost is the minimum sampled cost.
C12_ResultIsSampledPair ==
    (pc = "done" /\ ValidArguments) =>
        \A r \in result :
            /\ r.cost * CostDen = MinSampledCost
            /\ \E i \in 1..Len(evaluated) :
                  evaluated[i].volume = r.volume /\ evaluated[i].cost = r.cost * CostDen

\* C12, amended: with minVolume <= maxVolume and initialStepSize > 0 the
\* returned {volume, cost} is {Math.round(v), Math.round(c)} for a pair (v, c)
\* that was sampled, c being the minimum of all sampled costs.
C12_ResultIsRoundedSampledPair ==
    (pc = "done" /\ ValidArguments) =>
        \E i \in 1..Len(evaluated) :
            /\ \A j \in 1..Len(evaluated) : evaluated[i].cost <= evaluated[j].cost
            /\ result = {[volume |-> MathRound(evaluated[i].volume, 1),
                          cost   |-> MathRound(evaluated[i].cost, CostDen)]}

\* A finished search whose minimum sampled cost is not a whole number and was
\* found after the coarse pass.
C12_Witness ==
    /\ pc = "done"
    /\ ValidArguments
    /\ lowestCost % CostDen # 0
    /\ Len(passLowest) = 3
    /\ passLowest[3] < passLowest[1]
    /\ \A r \in result : r.cost * CostDen # lowestCost

\* The samples of one pass, the volumes of a sequence of samples, and the
\* volumes lo, lo + step, ... up to hi.
PassSamples(p) == SelectSeq(evaluated, LAMBDA e : e.pass = p)
VolumesOf(samples) == [i \in 1..Len(samples) |-> samples[i].volume]
Grid(lo, hi, step) ==
    IF lo > hi THEN <<>>
    ELSE [k \in 1..((hi - lo) \div step + 1) |-> lo + (k - 1) * step]
UpTo(p) == SelectSeq(evaluated, LAMBDA e : PassRank(e.pass) <= PassRank(p))
\* The first sample of a non-empty sequence of samples that has its lowest cost.
FirstBest(samples) ==
    LET k == CHOOSE i \in 1..Len(samples) :
                 /\ \A j \in 1..Len(samples) : samples[i].cost <= samples[j].cost
                 /\ \A j \in 1..(i - 1) : samples[j].cost > samples[i].cost
    IN  samples[k]

\* C18 (coarse pass grid), as claimed: with valid arguments the coarse pass
\* evaluates minVolume, minVolume + initialStepSize, ... and also maxVolume.
C18_CoarseReachesMax ==
    (ValidArguments /\ pc \in {"refine", "final", "done"}) =>
        \E i \in 1..Len(evaluated) :
            evaluated[i].pass = "coarse" /\ evaluated[i].volume = maxVolume

\* C18, amended: with minVolume <= maxVolume and initialStepSize > 0 a completed
\* coarse pass has evaluated exactly minVolume + k * initialStepSize for
\* k = 0 .. floor((maxVolume - minVolume) / initialStepSize), in this order;
\* maxVolume is among them only if maxVolume - minVolume is a multiple of
\* initialStepSize, and with initialStepSize > maxVolume - minVolume the pass
\* evaluates minVolume only, once.
C18_CoarseGrid ==
    (ValidArguments /\ pc \in {"refine", "final", "done"}) =>
        /\ VolumesOf(PassSamples("coarse")) = Grid(minVolume, maxVolume, initialStepSize)
        /\ (initialStepSize > maxVolume - minVolume =>
                VolumesOf(PassSamples("coarse")) = <<minVolume>>)
        /\ ((\E i \in 1..Len(evaluated) :
                evaluated[i].pass = "coarse" /\ evaluated[i].volume = maxVolume)
            <=> (maxVolume - minVolume) % initialStepSize = 0)

\* A completed coarse pass of several evaluations that stopped short of maxVolume.
C18_Witness ==
    /\ ValidArguments
    /\ pc = "refine"
    /\ Len(evaluated) >= 3
    /\ evaluated[Len(evaluated)].volume < maxVolume
    /\ (maxVolume - minVolume) % initialStepSize # 0
    /\ volume = refinedMin

\* C19 (window narrowing): with valid arguments a completed refinement pass has
\* scanned exactly [max(minVolume, b1 - initialStep), min(maxVolume, b1 +
\* initialStep)] in steps of initialStep / 10, b1 the best volume of the coarse
\* pass; a completed final pass has scanned exactly [max(minVolume, b2 -
\* initialStep / 10), min(maxVolume, b2 + initialStep / 10)] in steps of
\* initialStep / 50, b2 the best volume after the refinement pass; and the
\* running minimum at the end of a pass is the minimum over all passes so far.
C19_WindowNarrowing ==
    (ValidArguments /\ pc \in {"final", "done"}) =>
        LET b1 == FirstBest(PassSamples("coarse")).volume
            b2 == FirstBest(UpTo("refine")).volume
            s1 == initialStepSize \div 10
            s2 == initialStepSize \div 50
        IN  /\ VolumesOf(PassSamples("refine")) =
                   Grid(Max(minVolume, b1 - initialStepSize),
                        Min(maxVolume, b1 + initialStepSize), s1)
            /\ passLowest[2] = FirstBest(UpTo("refine")).cost
            /\ pc = "done" =>
                   /\ VolumesOf(PassSamples("final")) =
                          Grid(Max(minVolume, b2 - s1), Min(maxVolume, b2 + s1), s2)
                   /\ passLowest[3] = FirstBest(evaluated).cost

\* A finished search whose refinement pass moved the best volume and whose
\* refinement window was cut at minVolume but not at maxVolume.
C19_Witness ==
    /\ pc = "done"
    /\ ValidArguments
    /\ FirstBest(UpTo("refine")).volume # FirstBest(PassSamples("coarse")).volume
    /\ refinedMin = minVolume
    /\ FirstBest(PassSamples("coarse")).volume - initialStepSize < minVolume
    /\ refinedMax < maxVolume
    /\ finalMin > minVolume

\* The evaluator calls of one pass: its samples and, if the evaluator threw in
\* that pass, the call that threw.
CallsIn(p) ==
    Len(PassSamples(p))
    + (IF Len(calls) > Len(evaluated) /\ PassRank(p) = Len(passLowest) + 1 THEN 1 ELSE 0)

\* C20 (bounded evaluator calls): with valid arguments a completed coarse pass
\* has made exactly floor((maxVolume - minVolume) / initialStepSize) + 1
\* evaluator calls, the refinement pass makes at most 21 and the final pass at
\* most 11, whatever the evaluator returns.
C20_BoundedCalls ==
    ValidArguments =>
        /\ CallsIn("coarse") <= (maxVolume - minVolume) \div initialStepSize + 1
        /\ (pc \in {"refine", "final", "done"} =>
                CallsIn("coarse") = (maxVolume - minVolume) \div initialStepSize + 1)
        /\ CallsIn("refine") <= 21
        /\ CallsIn("final") <= 11
        /\ Len(calls) = CallsIn("coarse") + CallsIn("refine") + CallsIn("final")

\* A finished search that used the full 21 and 11 calls of its last two passes.
C20_Witness ==
    /\ pc = "done"
    /\ ValidArguments
    /\ CallsIn("refine") = 21
    /\ CallsIn("final") = 11
    /\ CallsIn("coarse") > 1

\* C13 (termination): with minVolume <= maxVolume, initialStepSize > 0 and an
\* evaluator whose calls all return, a search that was called eventually
\* returns (each of its passes ends).
C13_Termination ==
    [](  (pc = "coarse" /\ ValidArguments /\ (backend = "down" \/ failure.at = 0))
      => <>(pc = "done" /\ settled = "fulfilled" /\ Len(passLowest) = 3))

\* A search over a proper range that has returned after evaluating in all
\* three passes with an evaluator that never failed.
C13_Witness ==
    /\ pc = "done"
    /\ ValidArguments
    /\ minVolume < maxVolume
    /\ failure.at = 0
    /\ CallsIn("coarse") > 1 /\ CallsIn("refine") > 1 /\ CallsIn("final") > 1
    /\ result # {}

\* C14 (no global side effects), as claimed: the module-level modelCache is
\* the same after a findOptimalProductionVolume call as before it.
C14_CacheUntouched ==
    pc \in {"done", "failed"} => modelCache = cacheAtCall

\* C14, amended: a search changes modelCache only through its first evaluator
\* call, and only if the cache held no cost model when the search was called:
\* that call stores the loaded model, or the fallback model if the load
\* failed, in modelCache.costOptimization; a search called with a cost model
\* already cached leaves modelCache as it was, and demandForecast is never
\* touched.
C14_CacheFilledByFirstCall ==
    pc # "idle" =>
        /\ modelCache.demandForecast = cacheAtCall.demandForecast
        /\ (cacheAtCall.costOptimization # "null" \/ calls = <<>>) => modelCache = cacheAtCall
        /\ (cacheAtCall.costOptimization = "null" /\ calls # <<>>) =>
               modelCache.costOptimization = (IF backend = "ok" THEN "loaded" ELSE "fallback")

\* A finished search that was called with an empty cache and left the fallback
\* model behind in it.
C14_Witness ==
    /\ pc = "done"
    /\ cacheAtCall.costOptimization = "null"
    /\ modelCache.costOptimization = "fallback"
    /\ modelCache # cacheAtCall

\* C16 (cooperative cancellation), as claimed: once the caller has signalled
\* cancellation the search makes no further evaluator call and does not go on
\* to return normally: it ends with a CancelledError.
C16_CancelStopsSearch ==
    [][cancelRequested =>
          /\ calls' = calls
          /\ settled' \in {"pending", "CancelledError"}]_vars

\* One loop of a search run on its own, from volume v: the running best after it.
RECURSIVE Scan(_, _, _, _, _)
Scan(model, v, hi, step, best) ==
    IF ~Continue(v, hi) THEN best
    ELSE LET cost == DenormalizeCost(
                         ModelPredict(model, NormalizeProductionVolume(v), 0 - 1).out)
         IN  Scan(model, Advance(v, step), hi, step,
                  IF IsImprovement(cost, best.lowestCost)
                  THEN [bestVolume |-> v, lowestCost |-> cost]
                  ELSE best)

\* What findOptimalProductionVolume(a, b, st) returns when nothing else runs and
\* no prediction fails.
AloneResult(a, b, st) ==
    LET m == LoadCostOptimizationModel(
                 [costOptimization |-> "null", demandForecast |-> "null"]).model
        c == Scan(m, a, b, st, [bestVolume |-> a, lowestCost |-> Infinity])
        r == Scan(m, WindowMin(a, c.bestVolume, st), WindowMax(b, c.bestVolume, st),
                  st \div 10, c)
        f == Scan(m, WindowMin(a, r.bestVolume, st \div 10),
                  WindowMax(b, r.bestVolume, st \div 10), (st \div 10) \div 5, r)
    IN  {[volume |-> MathRound(f.bestVolume, volDen),
          cost   |-> MathRound(f.lowestCost, CostDen)]}

\* AloneResult agrees with the single search of Spec, step by step.
AloneResultIsSearchResult ==
    (pc = "done" /\ initialStepSize > 0 /\ failure = NoFailure) =>
        result = AloneResult(minVolume, maxVolume, initialStepSize)

C17_SequentialEvaluation ==
    \A i \in SearchIds :
        LET s == searches[i]
        IN  /\ s.outstanding <= 1
            /\ Len(s.issued) = Len(s.log) + s.outstanding
            /\ \A k \in 1..Len(s.log) :
                   /\ s.log[k].volume = s.issued[k].volume
                   /\ s.log[k].pass = s.issued[k].pass
            /\ \A k \in 1..(Len(s.issued) - 1) :
                   /\ PassRank(s.issued[k].pass) <= PassRank(s.issued[k + 1].pass)
                   /\ s.issued[k].pass = s.issued[k + 1].pass =>
                          s.issued[k].volume < s.issued[k + 1].volume

\* A search in its final pass with a call outstanding, after coarse and
\* refinement calls, while the other search is suspended in a call too.
C17_Witness ==
    /\ searches[2].pc = "final"
    /\ searches[2].outstanding = 1
    /\ \E k \in 1..Len(searches[2].log) : searches[2].log[k].pass = "coarse"
    /\ \E k \in 1..Len(searches[2].log) : searches[2].log[k].pass = "refine"
    /\ searches[1].outstanding = 1

\* The best volume of the coarse pass: bestVolume as the first loop leaves it.
CoarseBest ==
    IF PassSamples("coarse") = <<>> THEN minVolume
    ELSE FirstBest(PassSamples("coarse")).volume

\* The evaluator's cost at a volume, with the model the search used.
CostAt(v) ==
    DenormalizeCost(ModelPredict(modelCache.costOptimization,
                                 NormalizeProductionVolume(v), 0 - 1).out)

\* C21 (local refinement only): with valid arguments the best volume of the
\* refinement pass and of a finished search, before rounding, is within
\* initialStep + initialStep / 10 of the best volume found by the coarse pass.
C21_LocalRefinement ==
    (ValidArguments /\ pc \in {"refine", "final", "done"}) =>
        Abs(bestVolume - CoarseBest) <= initialStepSize + initialStepSize \div 10

\* A finished search that moved away from the coarse best in both later passes
\* and did not return a volume of the range that costs less but lies farther
\* from the coarse best than the refinement reaches.
C21_Witness ==
    /\ pc = "done"
    /\ ValidArguments
    /\ settled = "fulfilled"
    /\ bestVolume # CoarseBest
    /\ \E v \in minVolume..maxVolume :
           /\ Abs(v - CoarseBest) > initialStepSize + initialStepSize \div 10
           /\ CostAt(v) < lowestCost

\* The model a running or finished search evaluates is strictly decreasing up to
\* a single minimiser and strictly increasing after it: a loaded bowl without a
\* flat bottom, or the fallback model (its parabola, lines 79-80).
Unimodal ==
    \/ modelCache.costOptimization = "fallback"
    \/ modelCache.costOptimization = "loaded" /\ tfModel.kind = "bowl" /\ tfModel.flat = 0

\* The volume at which a unimodal model is lowest
Minimizer ==
    IF modelCache.costOptimization = "fallback"
    THEN (5000 * NormDen) \div 10000 + NormMin
    ELSE tfModel.centre + NormMin

\* C24 (convergence on unimodal evaluators): with minVolume < maxVolume, a
\* positive step and an evaluator that is strictly unimodal with its minimiser m
\* in [minVolume, maxVolume], the best volume of a finished search, before
\* rounding, is within initialStep / 50 of m.
C24_UnimodalConvergence ==
    (/\ pc = "done"
     /\ settled = "fulfilled"
     /\ minVolume < maxVolume
     /\ initialStepSize > 0
     /\ Unimodal
     /\ Minimizer \in minVolume..maxVolume) =>
        Abs(bestVolume - Minimizer) <= initialStepSize \div 50

\* A finished search on a unimodal model whose minimiser lies within one step
\* of minVolume, so that the refinement window was cut at minVolume, and whose
\* final grid did not hit the minimiser itself.
C24_Witness ==
    /\ pc = "done"
    /\ settled = "fulfilled"
    /\ minVolume < maxVolume
    /\ initialStepSize > 0
    /\ Unimodal
    /\ Minimizer \in (minVolume + 1)..maxVolume
    /\ Minimizer - minVolume < initialStepSize
    /\ refinedMin = minVolume
    /\ bestVolume # Minimizer
    /\ bestVolume # minVolume

\* C25 (returned volume within range), as claimed: for every minVolume <=
\* maxVolume, fractional range ends included, the volume of the returned
\* result, after Math.round, lies in [minVolume, maxVolume].
C25_RoundedVolumeInRange ==
    (pc = "done" /\ minVolume <= maxVolume) =>
        \A r \in result :
            /\ minVolume <= r.volume * volDen
            /\ r.volume * volDen <= maxVolume

\* C22 (predictDemand is a non-negative integer): for every combination of
\* numeric features predictDemand returns a non-negative integer, also where
\* the weighted sum is strongly negative and the three multipliers all apply.
C22_DemandNonNegativeInteger ==
    \A p \in prediction : p \in Nat

\* A call with price > 100, availability < 30 and leadTimes > 14 whose
\* prediction before clamping is below -100.
C22_Witness ==
    /\ prediction = {0}
    /\ features.price > 100
    /\ features.availability < 30
    /\ features.leadTimes > 14
    /\ PredictDemandUnclamped(features) < 0 - 100

\* C23 (single model load), as claimed: under any interleaving of concurrent
\* callers the model load is started at most once, and every caller that has
\* returned holds the model object that is in modelCache.costOptimization.
C23_SingleLoad ==
    /\ loads.started <= 1
    /\ \A c \in Callers :
           loads.callers[c].phase = "done" => loads.callers[c].got = loads.costOptimization

\* C26 (Optimization loading flag): isLoading is true exactly while a
\* predictCost or runOptimization call is in flight, and every call that
\* settles, successfully or not, leaves isLoading false.
C26_LoadingFlag ==
    /\ [](isLoading <=> inFlight # <<>>)
    /\ [][Len(inFlight') < Len(inFlight) => ~isLoading']_vars

\* Both handlers have settled on their failure path and on their success path.
C26_Witness ==
    /\ ~isLoading
    /\ inFlight = <<>>
    /\ error = "Error during optimization"
    /\ predictedCost = "set"
    /\ optimalVolume = "set"

\* C27 (success and error are exclusive), as claimed: whenever
\* optimizationDone is true the error state is null.
C27_DoneExcludesError ==
    optimizationDone => error = "null"

\* C28 (valid active tab): activeTab is always one of the four tabs, and a
\* 'navigate-tab' event whose detail is missing or is not one of them leaves
\* activeTab unchanged.
C28_ValidActiveTab ==
    /\ [](activeTab \in Tabs)
    /\ [][(lastNavigation' # lastNavigation /\ lastNavigation'.detail \notin Tabs)
              => activeTab' = activeTab]_vars

\* A tab other than the first is active after an event with a detail that is no
\* tab was handled.
C28_Witness ==
    /\ lastNavigation.detail = "settings"
    /\ activeTab = "optimization"

\* C29 (EDA axis selection matches the loaded file), as claimed: whenever data
\* is non-null, xAxisColumn and yAxisColumn are each '' or one of the current
\* columns.
C29_AxesAmongColumns ==
    data # {} =>
        /\ xAxisColumn \in {""} \cup ColumnsOf(columns)
        /\ yAxisColumn \in {""} \cup ColumnsOf(columns)

ValuesOf(values) == {values[i] : i \in 1..Len(values)}

\* C30 (SupplyChainData metadata matches data), as claimed: after any sequence
\* of completed loadData calls the five metadata lists hold exactly the
\* distinct values of their columns in the data currently held, also after a
\* load that yields no rows.
C30_MetadataMatchesData ==
    LET d == supplyChainData
        Col(field) == {d.data[i][field] : i \in 1..Len(d.data)}
    IN  /\ ValuesOf(d.productTypes) = Col("productType")
        /\ ValuesOf(d.suppliers) = Col("supplier")
        /\ ValuesOf(d.locations) = Col("location")
        /\ ValuesOf(d.transportModes) = Col("transportMode")
        /\ ValuesOf(d.carriers) = Col("carrier")

=============================================================================
